---- MODULE Spec2Model ----
(***************************************************************************)
(* Model of the agyc orchestrator.  Dispatcher (dispatcher.py): admission  *)
(* into the global queue, the router fiber, one worker fiber per account,  *)
(* health scores, and stop.  SessionManager and SubprocessSession          *)
(* (session_manager.py, sessions/subprocess_session.py): start_all, the    *)
(* supervision fiber, stop_all, and each session's child process.  The     *)
(* status codes of POST /v1/messages (api.py).                             *)
(*                                                                         *)
(* asyncio is cooperative: a fiber runs from one real suspension to the    *)
(* next without interleaving, so each action below is one such run.        *)
(* `await q.get()` on a non-empty queue, `await q.put()` on a non-full     *)
(* queue and `await sem.acquire()` with a free permit do not suspend.      *)
(*                                                                         *)
(* health_score is kept in half points: 200 stands for 100.0, +1 for +0.5. *)
(***************************************************************************)
EXTENDS Integers, Sequences, FiniteSets, TLC

\* ---------------------------------------------------------------- bounds
MaxSubmits == 3
MaxPenalties == 1
\* failed tasks in a row each account of a worn fleet began with
PriorFailures == 19
\* children the sessions spawn in one run
MaxSpawns == 4

\* ------------------------------------------------------ program constants
HealthInit == 200
HealthMax == 200
SuccessBonus == 1
FailurePenalty == 10
QueueFullPenalty == 2

\* ------------------------------------------------------------ value sets
AccountIds == {"a", "b"}
\* lexicographic rank of an account id (str comparison in sorted())
IdRank(id) == IF id = "a" THEN 1 ELSE 2

Tasks == 1..MaxSubmits
NoTask == 0
NoAccount == "none"

\* Shapes of request["metadata"] a client can send (api.py forwards the body
\* unvalidated).  "plain": no metadata; "hint_*": metadata.routing.strategyHint
\* is that string; "routing_null": metadata = {"routing": null}.
Requests == {"plain", "hint_LRU", "routing_null"}

\* Values run_task can return (json.loads of the backend's stdout):
\*   "bare"     {"content": "ok"}                      no metadata key
\*   "md_keys"  {"metadata": {"trace": "x", "account_id": "zz"}}
\*   "list"     ["ok"]                                 valid JSON, not an object
BackendResults == {"bare", "md_keys", "list"}
Failures == {"backend_error", "timeout"}

VARIABLES
    \* configuration, fixed by the constructor
    order,                  \* insertion order of Dispatcher._accounts
    routing,                \* cfg.routing
    global_queue_size,      \* cfg.global_queue_size
    per_account_queue_size, \* cfg.per_account_queue_size
    max_concurrency,        \* handle.max_concurrency per account
    \* Dispatcher / AccountState
    global_queue,           \* Seq of TaskItem: [id, request]
    queue,                  \* per account: Seq of task ids
    semaphore,              \* per account: free permits
    inflight,
    health_score,
    last_used_ts,
    tasks_total,
    errors_total,
    rr_cursor,
    capacity_event,
    stop_event,
    \* fibers
    router,                 \* [pc, item, hint]: position, held task, its hint
    worker,                 \* per account: [pc, item]
    \* tasks
    future,                 \* per task: state of the result slot
    result,                 \* per task: metadata of the delivered result
    fulfilled,              \* per task: number of set_result/set_exception calls
    backend_out,            \* per task: what run_task returned for it
    \* environment and observation
    clock,                  \* time.time(), strictly increasing between readings
    submitted,              \* number of submit calls so far
    penalties,              \* number of local-queue-full penalties so far
    placed,                 \* the placements so far, in order: [id, acc]
    rr_log,                 \* what the picks so far looked like
    \* SessionManager and its SubprocessSessions (session_manager.py,
    \* sessions/subprocess_session.py)
    start_command,          \* the accounts that configure a startCommand
    health_command,         \* the accounts that configure a healthCommand
    hanging,                \* the account whose health command never exits, if any
    sessions,               \* SessionManager._sessions, in insertion order
    proc,                   \* per account: session._proc (0: None, k: the k-th child)
    live,                   \* the children that have not exited (returncode is None)
    spawned,                \* number of children spawned so far
    signals,                \* number of terminate() and kill() calls so far
    monitor_task,           \* the supervision fiber: [pc, i]
    sm_stop_event,          \* SessionManager._stop_event
    manager,                \* the caller of start_all / stop_all: [pc, i]
    client,                 \* a caller of session.start / session.stop: [pc, acc]
    last_call               \* the last session call of the client, and the state it found

cfgvars == <<order, routing, global_queue_size, per_account_queue_size, max_concurrency>>
accvars == <<queue, semaphore, inflight, health_score, last_used_ts, tasks_total, errors_total>>
taskvars == <<future, result, fulfilled, backend_out>>
dispvars == <<cfgvars, accvars, taskvars, global_queue, rr_cursor, capacity_event,
              stop_event, router, worker, clock, submitted, penalties, placed, rr_log>>
sesscfg == <<start_command, health_command, hanging>>
sessvars == <<sesscfg, sessions, proc, live, spawned, signals, monitor_task,
              sm_stop_event, manager, client, last_call>>
vars == <<dispvars, sessvars>>

Accounts == {order[i] : i \in DOMAIN order}

\* --------------------------------------------------------------- helpers
Max2(x, y) == IF x >= y THEN x ELSE y
Min2(x, y) == IF x <= y THEN x ELSE y

\* asyncio.Queue.full(): a queue built with maxsize <= 0 is never full
QueueIsFull(q, maxsize) == maxsize > 0 /\ Len(q) >= maxsize

\* a queue that hands out its newest item
DequeueLast(q) == [item |-> q[Len(q)], rest |-> SubSeq(q, 1, Len(q) - 1)]

\* asyncio.Queue.get() on a non-empty queue: the oldest item, and what is left
Dequeue(q) == [item |-> Head(q), rest |-> Tail(q)]

\* a load_config that takes maxConcurrency as written
ClampConcurrencyOff(n) == n

\* max(1, int(maxConcurrency)) in load_config
ClampConcurrency(n) == Max2(1, n)

\* ------------------------------------------------------------- routing
\* request.metadata.routing.strategyHint; "" stands for None (no hint)
HintOf(req) ==
    IF req = "hint_LRU" THEN "LRU" ELSE ""

\* (request.get("metadata") or {}).get("routing", {}).get("strategyHint")
\* raises AttributeError when metadata.routing is null
HintRaises(req) == req = "routing_null"

\* str.lower() on the strategy names that occur
Lower(s) == IF s = "LRU" THEN "lru" ELSE s

\* strategy = (hint or cfg.routing or "round-robin").lower()
Strategy(hint) ==
    Lower(IF hint # "" THEN hint ELSE IF routing # "" THEN routing ELSE "round-robin")

IsLru(strategy) == strategy \in {"lru", "least-recently-used", "least_recently_used"}
IsHealth(strategy) == strategy \in {"health", "health-score", "health_score"}

\* _usable_accounts: dict order, health_score > 0
Usable(health) == SelectSeq(order, LAMBDA a : health[a] > 0)

\* min(usable, key=...): the first element, in iteration order, with the least key
FirstMin(seq, key) ==
    seq[CHOOSE i \in 1..Len(seq) :
            /\ \A j \in 1..Len(seq) : key[seq[i]] <= key[seq[j]]
            /\ \A j \in 1..(i - 1) : key[seq[j]] > key[seq[i]]]

\* max(usable, key=...): the first element, in iteration order, with the greatest key
FirstMax(seq, key) ==
    seq[CHOOSE i \in 1..Len(seq) :
            /\ \A j \in 1..Len(seq) : key[seq[i]] >= key[seq[j]]
            /\ \A j \in 1..(i - 1) : key[seq[j]] < key[seq[i]]]

\* a round-robin that walks the accounts in configuration order
SortedByIdUnsorted(seq) == seq

\* sorted(usable, key=account_id)
SortedById(seq) ==
    CHOOSE s \in [1..Len(seq) -> {seq[i] : i \in 1..Len(seq)}] :
        /\ \A i, j \in 1..Len(seq) : i < j => IdRank(s[i]) < IdRank(s[j])

\* _pick_account: the chosen account (NoAccount for None) and the cursor after it
PickAccount(hint, health, cursor) ==
    LET strategy == Strategy(hint)
        usable == Usable(health)
    IN  IF Len(usable) = 0 THEN [acc |-> NoAccount, cursor |-> cursor]
        ELSE IF IsLru(strategy)
            THEN [acc |-> FirstMin(usable, last_used_ts), cursor |-> cursor]
        ELSE IF IsHealth(strategy)
            THEN [acc |-> FirstMax(usable, health), cursor |-> cursor]
        ELSE LET ordered == SortedById(usable)
                 c == cursor % Len(ordered)
             IN  [acc |-> ordered[c + 1], cursor |-> (c + 1) % Len(ordered)]

\* health_score = max(0.0, health_score - 1.0)
QueueFullScore(h) == Max2(0, h - QueueFullPenalty)
\* a success whose bonus is not applied by the time the result is set
SuccessScoreLate(h) == h

\* health_score = min(100.0, health_score + 0.5)
SuccessScore(h) == Min2(HealthMax, h + SuccessBonus)
\* a failure penalised like a full local queue
FailureScoreAsQueueFull(h) == Max2(0, h - QueueFullPenalty)
\* a failure penalty that is not clamped at 0
FailureScoreUnclamped(h) == h - FailurePenalty

\* health_score = max(0.0, health_score - 5.0)
FailureScore(h) == Max2(0, h - FailurePenalty)

\* what a pick looked like, for the round-robin observation log
LogPick(log, hint, health, saturated, full) ==
    IF log = "other" \/ IsLru(Strategy(hint)) \/ IsHealth(Strategy(hint))
       \/ Len(Usable(health)) < Len(order) \/ saturated
    THEN "other"
    ELSE IF full \/ log = "queue_full" THEN "queue_full" ELSE "clean"

\* ---------------------------------------------------------------- router
\* The router's state as a record s: gq, lq, health, cursor, cap, pc, item, hint,
\* placed, log, pen.  Local queues hold task ids: a request is read only when
\* the router computes its hint (lines 119-123).  RouterPick is one pass of the inner `while` (lines
\* 125-144); RouterTake is the outer loop from `await global_queue.get()`.
\* Each is written as the one element of a singleton set so that the state s is
\* a value computed once per pass, as the loop's locals are in the code.
RECURSIVE RouterPick(_), RouterTake(_)
RouterPick(state) ==
    CHOOSE next \in {
        LET hint == s.hint
            p == PickAccount(hint, s.health, s.cursor)
            a == p.acc
        IN  IF a = NoAccount
            THEN [s EXCEPT !.pc = "sleep"]
            ELSE IF inflight[a] >= max_concurrency[a]
            THEN [s EXCEPT !.cursor = p.cursor, !.cap = FALSE, !.pc = "capacity_wait",
                           !.log = LogPick(s.log, hint, s.health, TRUE, FALSE)]
            ELSE IF QueueIsFull(s.lq[a], per_account_queue_size)
            THEN [s EXCEPT !.cursor = p.cursor,
                           !.health[a] = QueueFullScore(s.health[a]),
                           !.pen = s.pen + 1, !.pc = "yield",
                           !.log = LogPick(s.log, hint, s.health, FALSE, TRUE)]
            ELSE RouterTake([s EXCEPT !.cursor = p.cursor,
                                      !.lq[a] = Append(s.lq[a], s.item),
                                      !.placed = Append(s.placed, [id |-> s.item, acc |-> a]),
                                      !.item = NoTask, !.hint = "",
                                      !.log = LogPick(s.log, hint, s.health, FALSE, FALSE)])
        : s \in {state}} : TRUE
RouterTake(state) ==
    CHOOSE next \in {
        IF s.gq = <<>>
        THEN [s EXCEPT !.pc = "get"]
        ELSE LET item == Dequeue(s.gq).item
                 s1 == [s EXCEPT !.gq = Dequeue(s.gq).rest, !.item = item.id]
             IN  IF HintRaises(item.request)
                 THEN [s1 EXCEPT !.pc = "dead"]
                 ELSE RouterPick([s1 EXCEPT !.hint = HintOf(item.request)])
        : s \in {state}} : TRUE

RouterState ==
    [gq |-> global_queue, lq |-> queue, health |-> health_score, cursor |-> rr_cursor,
     cap |-> capacity_event, pc |-> router.pc, item |-> router.item, hint |-> router.hint,
     placed |-> placed, log |-> rr_log, pen |-> penalties]

RouterCommit(s) ==
    /\ global_queue' = s.gq
    /\ queue' = s.lq
    /\ health_score' = s.health
    /\ rr_cursor' = s.cursor
    /\ capacity_event' = s.cap
    /\ router' = [pc |-> s.pc, item |-> s.item, hint |-> s.hint]
    /\ placed' = s.placed
    /\ rr_log' = s.log
    /\ penalties' = s.pen
    /\ UNCHANGED <<cfgvars, semaphore, inflight, last_used_ts, tasks_total, errors_total,
                   taskvars, stop_event, worker, clock, submitted, sessvars>>

\* `await self._global_queue.get()` returns: the router runs to its next suspension
RouterGet ==
    /\ router.pc = "get"
    /\ global_queue # <<>>
    /\ RouterCommit(RouterTake(RouterState))

\* asyncio.sleep(0.1) (no usable account) or asyncio.sleep(0) (local queue full) ends
RouterRetry ==
    /\ router.pc \in {"sleep", "yield"}
    /\ RouterCommit(RouterPick(RouterState))

\* the capacity event was set while the router waited on it
RouterCapacitySignal ==
    /\ router.pc = "capacity_wait"
    /\ capacity_event
    /\ RouterCommit(RouterPick(RouterState))

\* asyncio.wait_for(..., timeout=1.0) expires: TimeoutError leaves _router_loop
RouterCapacityTimeout ==
    /\ router.pc = "capacity_wait"
    /\ ~capacity_event
    /\ router' = [router EXCEPT !.pc = "dead"]
    /\ UNCHANGED <<cfgvars, accvars, taskvars, global_queue, rr_cursor, capacity_event,
                   stop_event, worker, clock, submitted, penalties, placed, rr_log,
                   sessvars>>

\* ---------------------------------------------------------------- submit
\* Dispatcher.submit: QueueFull at admission, else enqueue and await the future
Submit(req) ==
    /\ submitted < MaxSubmits
    /\ LET t == submitted + 1
       IN  /\ submitted' = t
           /\ IF QueueIsFull(global_queue, global_queue_size)
              THEN /\ future' = [future EXCEPT ![t] = "queue_full"]
                   /\ UNCHANGED global_queue
              ELSE /\ future' = [future EXCEPT ![t] = "pending"]
                   /\ global_queue' = Append(global_queue, [id |-> t, request |-> req])
    /\ UNCHANGED <<cfgvars, accvars, result, fulfilled, backend_out, rr_cursor,
                   capacity_event, stop_event, router, worker, clock, penalties,
                   placed, rr_log, sessvars>>

\* ---------------------------------------------------------------- worker
NoMetadata == [k \in {} |-> ""]

\* the "metadata" value of what run_task returned, as a mapping
BackendMetadata(r) ==
    IF r = "md_keys" THEN [k \in {"trace", "account_id"} |->
                              IF k = "trace" THEN "x" ELSE "zz"]
    ELSE NoMetadata

\* result.setdefault("metadata", {}) raises AttributeError on a non-dict
InjectRaises(r) == r = "list"

\* an injection that keeps an account_id the backend already put there
MergeMetadataKeep(md, id) ==
    [k \in DOMAIN md \cup {"account_id"} |-> IF k \in DOMAIN md THEN md[k] ELSE id]

\* {**(result.get("metadata") or {}), "account_id": acc.handle.account_id}
MergeMetadata(md, id) ==
    [k \in DOMAIN md \cup {"account_id"} |-> IF k = "account_id" THEN id ELSE md[k]]

\* the worker loops to `await acc.queue.get()`: with an item waiting it takes it
\* at once (lines 150-159), otherwise it suspends.  The account's only worker
\* holds no permit here, so the semaphore is free.
WorkerLoop(a, q, infl, sem) ==
    IF q # <<>> /\ sem > 0
    THEN /\ queue' = [queue EXCEPT ![a] = Dequeue(q).rest]
         /\ inflight' = [inflight EXCEPT ![a] = infl + 1]
         /\ semaphore' = [semaphore EXCEPT ![a] = sem - 1]
         /\ worker' = [worker EXCEPT ![a] = [pc |-> "run_task", item |-> Dequeue(q).item]]
    ELSE /\ queue' = [queue EXCEPT ![a] = q]
         /\ inflight' = [inflight EXCEPT ![a] = infl]
         /\ semaphore' = [semaphore EXCEPT ![a] = sem]
         /\ worker' = [worker EXCEPT ![a] = [pc |-> "get", item |-> NoTask]]

\* a worker that forgets the decrement of the inner `finally`
FinishedLeak(n) == n

\* inflight after the inner `finally` (line 163)
Finished(n) == n - 1

\* set_result / set_exception guarded by `if not item.future.done()`
Fulfil(t, state, md) ==
    IF future[t] = "pending"
    THEN /\ future' = [future EXCEPT ![t] = state]
         /\ result' = [result EXCEPT ![t] = md]
         /\ fulfilled' = [fulfilled EXCEPT ![t] = @ + 1]
    ELSE UNCHANGED <<future, result, fulfilled>>

\* `await acc.queue.get()` returns an item to a suspended worker
WorkerGet(a) ==
    /\ worker[a].pc = "get"
    /\ queue[a] # <<>>
    /\ semaphore[a] > 0
    /\ WorkerLoop(a, queue[a], inflight[a], semaphore[a])
    /\ UNCHANGED <<cfgvars, health_score, last_used_ts, tasks_total, errors_total,
                   taskvars, global_queue, rr_cursor, capacity_event, stop_event, router,
                   clock, submitted, penalties, placed, rr_log, sessvars>>

\* run_task returns r: lines 162-173, and 174-179 when the injection raises
WorkerSuccess(a, r) ==
    /\ worker[a].pc = "run_task"
    /\ clock' = clock + 1
    /\ last_used_ts' = [last_used_ts EXCEPT ![a] = clock']
    /\ tasks_total' = [tasks_total EXCEPT ![a] = @ + 1]
    /\ IF InjectRaises(r)
       THEN /\ health_score' = [health_score EXCEPT
                                   ![a] = FailureScore(SuccessScore(@))]
            /\ errors_total' = [errors_total EXCEPT ![a] = @ + 1]
            /\ Fulfil(worker[a].item, "inject_error", NoMetadata)
       ELSE /\ health_score' = [health_score EXCEPT ![a] = SuccessScore(@)]
            /\ UNCHANGED errors_total
            /\ Fulfil(worker[a].item, "result", MergeMetadata(BackendMetadata(r), a))
    /\ backend_out' = [backend_out EXCEPT ![worker[a].item] = r]
    /\ capacity_event' = TRUE
    /\ WorkerLoop(a, queue[a], Finished(inflight[a]), semaphore[a] + 1)
    /\ UNCHANGED <<cfgvars, global_queue, rr_cursor, stop_event, router,
                   submitted, penalties, placed, rr_log, sessvars>>

\* run_task raises or wait_for times out: lines 162-164 and 174-182
WorkerFailure(a, kind) ==
    /\ worker[a].pc = "run_task"
    /\ health_score' = [health_score EXCEPT ![a] = FailureScore(@)]
    /\ errors_total' = [errors_total EXCEPT ![a] = @ + 1]
    /\ Fulfil(worker[a].item, kind, NoMetadata)
    /\ capacity_event' = TRUE
    /\ WorkerLoop(a, queue[a], Finished(inflight[a]), semaphore[a] + 1)
    /\ UNCHANGED <<cfgvars, last_used_ts, tasks_total, backend_out, global_queue,
                   rr_cursor, stop_event, router, clock, submitted, penalties, placed,
                   rr_log, sessvars>>

\* ------------------------------------------------------------------ stop
\* a worker cancelled in run_task runs both `finally` blocks; CancelledError is
\* not an Exception, so the `except` branch and the future are skipped
CancelWorker(a) ==
    [inflight |-> IF worker[a].pc = "run_task" THEN Finished(inflight[a]) ELSE inflight[a],
     semaphore |-> IF worker[a].pc = "run_task" THEN semaphore[a] + 1 ELSE semaphore[a],
     signal |-> worker[a].pc = "run_task"]

\* Dispatcher.stop: set the stop event, cancel router and workers, gather them
Stop ==
    /\ ~stop_event
    /\ stop_event' = TRUE
    /\ router' = [router EXCEPT !.pc = IF @ = "dead" THEN "dead" ELSE "cancelled"]
    /\ worker' = [a \in Accounts |-> [worker[a] EXCEPT !.pc = "cancelled"]]
    /\ inflight' = [a \in Accounts |-> CancelWorker(a).inflight]
    /\ semaphore' = [a \in Accounts |-> CancelWorker(a).semaphore]
    /\ capacity_event' = (capacity_event \/ \E a \in Accounts : CancelWorker(a).signal)
    /\ UNCHANGED <<cfgvars, queue, health_score, last_used_ts, tasks_total, errors_total,
                   taskvars, global_queue, rr_cursor, clock, submitted, penalties,
                   placed, rr_log, sessvars>>

\* -------------------------------------------------------------- sessions
NoProc == 0
NoCall == [op |-> "none", acc |-> NoAccount, was_live |-> FALSE, proc |-> NoProc,
           signals |-> 0, spawned |-> 0]

\* `self._proc and self._proc.returncode is None`
ChildLive(p, lv) == p # NoProc /\ p \in lv

\* the sessions' processes as a record st: proc, live, spawned, signals
SessState == [proc |-> proc, live |-> live, spawned |-> spawned, signals |-> signals]

\* a start that spawns whether or not a child is live
StartSessionAlways(st, a) ==
    IF a \notin start_command THEN st
    ELSE [st EXCEPT !.proc[a] = st.spawned + 1,
                    !.live = st.live \cup {st.spawned + 1},
                    !.spawned = st.spawned + 1]

\* SubprocessSession.start: no start_command, or a live child: nothing to do
StartSession(st, a) ==
    IF a \notin start_command THEN st
    ELSE IF ChildLive(st.proc[a], st.live) THEN st
    ELSE [st EXCEPT !.proc[a] = st.spawned + 1,
                    !.live = st.live \cup {st.spawned + 1},
                    !.spawned = st.spawned + 1]

\* SubprocessSession.stop waits for the child (lines 49-50) iff one is live
StopSuspends(st, a) == ChildLive(st.proc[a], st.live)

\* stop up to there: clear the handle and return, or terminate() and wait
StopBegin(st, a) ==
    IF StopSuspends(st, a)
    THEN [st EXCEPT !.signals = st.signals + 1]
    ELSE [st EXCEPT !.proc[a] = NoProc]

\* stop from there (lines 50-56): the child has exited within 5 s, or wait_for
\* raised TimeoutError and the child was killed; the handle is cleared.
\* `except TimeoutError` catches what wait_for raises on Python 3.11 and later.
StopEnd(st, a, killed) ==
    [st EXCEPT !.live = st.live \ {st.proc[a]},
               !.signals = IF killed THEN st.signals + 1 ELSE st.signals,
               !.proc[a] = NoProc]

\* stop cancelled in its wait: only the `finally` clause runs
StopCancelled(st, a) == [st EXCEPT !.proc[a] = NoProc]

\* is_healthy returns False at once: a start_command and no live child
ProbeFalse(st, a) == a \in start_command /\ ~ChildLive(st.proc[a], st.live)

SessCommit(st) ==
    /\ proc' = st.proc
    /\ live' = st.live
    /\ spawned' = st.spawned
    /\ signals' = st.signals

\* _monitor_loop from the probe of the i-th session to its next suspension:
\* the health command of a session (pc "health_wait") or the sleep after the
\* last one.  A session found without its child is stopped and started on the way.
RECURSIVE MonitorFrom(_, _)
MonitorFrom(i, st) ==
    IF i > Len(sessions)
    THEN [st |-> st, pc |-> "sleep", i |-> 0]
    ELSE LET a == sessions[i]
         IN  IF ProbeFalse(st, a)
             THEN MonitorFrom(i + 1, StartSession(StopBegin(st, a), a))
             ELSE IF a \in health_command
             THEN [st |-> st, pc |-> "health_wait", i |-> i]
             ELSE MonitorFrom(i + 1, st)

MonitorCommit(r) ==
    /\ SessCommit(r.st)
    /\ monitor_task' = [pc |-> r.pc, i |-> r.i]
    /\ UNCHANGED <<dispvars, sesscfg, sessions, sm_stop_event, manager, client, last_call>>

\* the supervision fiber runs for the first time, or its sleep ends
MonitorCycle ==
    /\ monitor_task.pc \in {"ready", "sleep"}
    /\ IF sm_stop_event
       THEN /\ monitor_task' = [pc |-> "done", i |-> 0]
            /\ UNCHANGED <<dispvars, sesscfg, sessions, proc, live, spawned, signals,
                           sm_stop_event, manager, client, last_call>>
       ELSE MonitorCommit(MonitorFrom(1, SessState))

\* the health command exits (ok: with status 0): the session is healthy, or it
\* is stopped and started
MonitorHealthReturn(ok) ==
    /\ monitor_task.pc = "health_wait"
    /\ sessions[monitor_task.i] # hanging
    /\ LET i == monitor_task.i
           a == sessions[i]
       IN  IF ok
           THEN MonitorCommit(MonitorFrom(i + 1, SessState))
           ELSE IF StopSuspends(SessState, a)
           THEN MonitorCommit([st |-> StopBegin(SessState, a), pc |-> "stop_wait", i |-> i])
           ELSE MonitorCommit(MonitorFrom(i + 1, StartSession(StopBegin(SessState, a), a)))

\* the wait in session.stop ends; session.start follows
MonitorStopDone(killed) ==
    /\ monitor_task.pc = "stop_wait"
    /\ LET i == monitor_task.i
           a == sessions[i]
       IN  /\ killed => proc[a] \in live
           /\ MonitorCommit(MonitorFrom(i + 1, StartSession(StopEnd(SessState, a, killed), a)))

\* a child exits by itself
ChildExits(p) ==
    /\ p \in live
    /\ live' = live \ {p}
    /\ UNCHANGED <<dispvars, sesscfg, sessions, proc, spawned, signals, monitor_task,
                   sm_stop_event, manager, client, last_call>>

\* start_all: the sessions are created, started and registered in configuration
\* order; the session at fail_at, if any, raises from start (mkdir or spawn fails)
RECURSIVE StartFrom(_, _, _)
StartFrom(i, st, fail_at) ==
    IF i >= fail_at \/ i > Len(order) THEN st
    ELSE StartFrom(i + 1, StartSession(st, order[i]), fail_at)

StartAll(fail_at) ==
    /\ manager.pc = "new"
    /\ SessCommit(StartFrom(1, SessState, fail_at))
    /\ sessions' = SubSeq(order, 1, fail_at - 1)
    /\ IF fail_at <= Len(order)
       THEN /\ manager' = [pc |-> "start_failed", i |-> 0]
            /\ UNCHANGED <<monitor_task, sm_stop_event>>
       ELSE /\ manager' = [pc |-> "started", i |-> 0]
            /\ sm_stop_event' = FALSE
            /\ monitor_task' = [pc |-> "ready", i |-> 0]
    /\ UNCHANGED <<dispvars, sesscfg, client, last_call>>

\* the loop of stop_all from the i-th session to its next suspension
RECURSIVE StopFrom(_, _)
StopFrom(i, st) ==
    IF i > Len(sessions)
    THEN [st |-> st, pc |-> "stopped", i |-> 0]
    ELSE IF StopSuspends(st, sessions[i])
    THEN [st |-> StopBegin(st, sessions[i]), pc |-> "stop_wait", i |-> i]
    ELSE StopFrom(i + 1, StopBegin(st, sessions[i]))

ManagerCommit(r) ==
    /\ SessCommit(r.st)
    /\ manager' = [pc |-> r.pc, i |-> r.i]
    /\ sessions' = IF r.pc = "stopped" THEN <<>> ELSE sessions

\* stop_all.  With a supervision task: cancel it and await it; the await raises
\* CancelledError, which `except Exception` does not catch, and stop_all ends
\* there.  Without one: stop the sessions.
StopAll ==
    /\ manager.pc \in {"started", "start_failed", "stop_raised"}
    /\ sm_stop_event' = TRUE
    /\ IF monitor_task.pc = "none"
       THEN /\ ManagerCommit(StopFrom(1, SessState))
            /\ UNCHANGED monitor_task
       ELSE IF monitor_task.pc = "done"
       THEN /\ ManagerCommit(StopFrom(1, SessState))
            /\ monitor_task' = [pc |-> "none", i |-> 0]
       ELSE /\ SessCommit(IF monitor_task.pc = "stop_wait"
                          THEN StopCancelled(SessState, sessions[monitor_task.i])
                          ELSE SessState)
            /\ monitor_task' = [pc |-> "cancelled", i |-> 0]
            /\ manager' = [pc |-> "stop_raised", i |-> 0]
            /\ UNCHANGED sessions
    /\ UNCHANGED <<dispvars, sesscfg, client, last_call>>

\* the wait in session.stop ends, in stop_all's loop
ManagerStopDone(killed) ==
    /\ manager.pc = "stop_wait"
    /\ killed => proc[sessions[manager.i]] \in live
    /\ ManagerCommit(StopFrom(manager.i + 1,
                              StopEnd(SessState, sessions[manager.i], killed)))
    /\ UNCHANGED <<dispvars, sesscfg, monitor_task, sm_stop_event, client, last_call>>

\* a caller holding a session calls start on it
ApiStart(a) ==
    /\ client.pc = "idle"
    /\ last_call' = [op |-> "start", acc |-> a, was_live |-> ChildLive(proc[a], live),
                     proc |-> proc[a], signals |-> signals, spawned |-> spawned]
    /\ SessCommit(StartSession(SessState, a))
    /\ UNCHANGED <<dispvars, sesscfg, sessions, monitor_task, sm_stop_event, manager, client>>

\* the caller calls stop on it
ApiStop(a) ==
    /\ client.pc = "idle"
    /\ last_call' = [op |-> "stop", acc |-> a, was_live |-> ChildLive(proc[a], live),
                     proc |-> proc[a], signals |-> signals, spawned |-> spawned]
    /\ SessCommit(StopBegin(SessState, a))
    /\ client' = IF StopSuspends(SessState, a)
                 THEN [pc |-> "stop_wait", acc |-> a]
                 ELSE client
    /\ UNCHANGED <<dispvars, sesscfg, sessions, monitor_task, sm_stop_event, manager>>

\* the wait in that stop ends
ApiStopDone(killed) ==
    /\ client.pc = "stop_wait"
    /\ killed => proc[client.acc] \in live
    /\ SessCommit(StopEnd(SessState, client.acc, killed))
    /\ client' = [pc |-> "idle", acc |-> NoAccount]
    /\ UNCHANGED <<dispvars, sesscfg, sessions, monitor_task, sm_stop_event, manager,
                   last_call>>

\* ------------------------------------------------------------------- api
\* the exception type behind a failed submit: RuntimeError("Global queue is
\* full") from submit, RuntimeError("taskCommand failed ...") from run_task,
\* TimeoutError from asyncio.wait_for, AttributeError from result.setdefault
ExceptionOf(state) ==
    IF state \in {"queue_full", "backend_error"} THEN "RuntimeError"
    ELSE IF state = "timeout" THEN "TimeoutError"
    ELSE IF state = "inject_error" THEN "AttributeError"
    ELSE "none"

\* v1_messages: the status of the response for a task whose slot is in `state`
\* (0: no response yet); an exception no `except` clause names leaves the
\* handler and the server answers 500
HttpStatus(state) ==
    IF state \in {"none", "pending"} THEN 0
    ELSE IF state = "result" THEN 200
    ELSE IF ExceptionOf(state) = "RuntimeError" THEN 429
    ELSE IF ExceptionOf(state) = "TimeoutError" THEN 504
    ELSE 500

\* ------------------------------------------------------------------ init
\* the configurations explored
\* the order the accounts are configured in, and dispatcher.routing
\* (the lru strategy is reached through a request's hint)
Fleets == {<<<<"a", "b">>, "round-robin">>, <<<<"b", "a">>, "round-robin">>,
           <<<<"b", "a">>, "health">>}
\* globalQueueSize, perAccountQueueSize and every account's maxConcurrency as configured
Capacities == {<<2, 1, 0>>, <<0, 0, 2>>, <<2, 1, 2>>}
\* A fresh dispatcher, or a worn one: every account has had PriorFailures tasks
\* fail in a row, then one succeed (a first, b after it), then one more fail.
Fresh ==
    [health |-> HealthInit, errors |-> 0, tasks |-> 0,
     used |-> [a \in AccountIds |-> 0], clock |-> 1]
Worn ==
    [health |-> FailureScore(SuccessScore(Max2(0, HealthInit - PriorFailures * FailurePenalty))),
     errors |-> PriorFailures + 1, tasks |-> 1,
     used |-> [a \in AccountIds |-> 1 + IdRank(a)], clock |-> 1 + Cardinality(AccountIds)]
Wear == {Fresh, Worn}

\* Dispatcher.__init__ for one configuration, the accounts having the given
\* history behind them (health, errors, tasks and last use per account)
InitFleet(f, c, health, errors, tasks, used, clk) ==
    /\ order = f[1]
    /\ routing = f[2]
    /\ global_queue_size = c[1]
    /\ per_account_queue_size = c[2]
    /\ max_concurrency = [a \in AccountIds |-> ClampConcurrency(c[3])]
    /\ global_queue = <<>>
    /\ queue = [a \in AccountIds |-> <<>>]
    /\ semaphore = max_concurrency
    /\ inflight = [a \in AccountIds |-> 0]
    /\ health_score = health
    /\ errors_total = errors
    /\ tasks_total = tasks
    /\ last_used_ts = used
    /\ clock = clk
    /\ rr_cursor = 0
    /\ capacity_event = FALSE
    /\ stop_event = FALSE
    /\ router = [pc |-> "get", item |-> NoTask, hint |-> ""]
    /\ worker = [a \in AccountIds |-> [pc |-> "get", item |-> NoTask]]
    /\ future = [t \in Tasks |-> "none"]
    /\ result = [t \in Tasks |-> NoMetadata]
    /\ fulfilled = [t \in Tasks |-> 0]
    /\ backend_out = [t \in Tasks |-> "none"]
    /\ submitted = 0
    /\ penalties = 0
    /\ placed = <<>>
    /\ rr_log = "clean"

\* the same, every account having the same wear
InitWith(f, c, w) ==
    InitFleet(f, c, [a \in AccountIds |-> w.health], [a \in AccountIds |-> w.errors],
              [a \in AccountIds |-> w.tasks], w.used, w.clock)

\* SessionManager.__init__, and the sessions as constructed: nothing started
SessionsNew ==
    /\ sessions = <<>>
    /\ proc = [a \in AccountIds |-> NoProc]
    /\ live = {}
    /\ spawned = 0
    /\ signals = 0
    /\ monitor_task = [pc |-> "none", i |-> 0]
    /\ sm_stop_event = FALSE
    /\ manager = [pc |-> "new", i |-> 0]
    /\ client = [pc |-> "idle", acc |-> NoAccount]
    /\ last_call = NoCall

\* the dispatcher on its own: the sessions are left as constructed
SessionsIdle ==
    /\ start_command = {}
    /\ health_command = {}
    /\ hanging = NoAccount
    /\ SessionsNew

Init == (\E f \in Fleets, c \in Capacities, w \in Wear : InitWith(f, c, w)) /\ SessionsIdle

Next ==
    \/ \E req \in Requests : Submit(req)
    \/ RouterGet /\ penalties' <= MaxPenalties
    \/ RouterRetry /\ penalties' <= MaxPenalties
    \/ RouterCapacitySignal /\ penalties' <= MaxPenalties
    \/ RouterCapacityTimeout
    \/ \E a \in Accounts : WorkerGet(a)
    \/ \E a \in Accounts, r \in BackendResults : WorkerSuccess(a, r)
    \/ \E a \in Accounts, kind \in Failures : WorkerFailure(a, kind)
    \/ Stop

Spec == Init /\ [][Next]_vars

\* ------------------------------------------- the dispatcher left running
\* Unbounded local queues and one permit per account: the router can wait for
\* capacity but never finds a local queue full, and no account reaches score 0.
RunningCapacity == <<2, 0, 1>>
InitRunning == (\E f \in Fleets : InitWith(f, RunningCapacity, Fresh)) /\ SessionsIdle

WorkerFinish(a) ==
    \/ \E r \in BackendResults : WorkerSuccess(a, r)
    \/ \E kind \in Failures : WorkerFailure(a, kind)

\* the router fiber and a worker fiber, each at whichever await it is suspended in
RouterStep == RouterGet \/ RouterCapacitySignal \/ RouterCapacityTimeout
WorkerStep(a) == WorkerGet(a) \/ WorkerFinish(a)

NextRunning ==
    \/ \E req \in Requests : Submit(req)
    \/ RouterStep
    \/ \E a \in Accounts : WorkerStep(a)

\* Stop is never called; the event loop runs every fiber that is ready, every
\* run_task call ends, and the 1 s timer of the capacity wait fires.
FairSpec ==
    /\ InitRunning
    /\ [][NextRunning]_vars
    /\ WF_vars(RouterStep)
    /\ \A a \in AccountIds : WF_vars(WorkerStep(a))

\* ------------------------------------ a running dispatcher, worn accounts
\* health_score after n task failures in a row on a fresh account
FailedInARow(n) == Max2(0, HealthInit - n * FailurePenalty)

\* Account "a" has had PriorFailures + 1 tasks fail in a row (score 0), account
\* "b" PriorFailures of them (score 5.0): the next failure on "b" leaves no
\* usable account.
DegradedFailures == [a \in AccountIds |-> IF a = "a" THEN PriorFailures + 1 ELSE PriorFailures]
InitDegraded ==
    /\ InitFleet(<<<<"a", "b">>, "round-robin">>, RunningCapacity,
                 [a \in AccountIds |-> FailedInARow(DegradedFailures[a])],
                 DegradedFailures, [a \in AccountIds |-> 0], [a \in AccountIds |-> 0], 1)
    /\ SessionsIdle

\* the router fiber, also when it is in asyncio.sleep(0.1)
RouterRun == RouterStep \/ RouterRetry

NextDegraded ==
    \/ \E req \in Requests : Submit(req)
    \/ RouterRun
    \/ \E a \in Accounts : WorkerStep(a)

\* as FairSpec: no stop, every ready fiber runs, every run_task call and every
\* sleep ends
FairDegradedSpec ==
    /\ InitDegraded
    /\ [][NextDegraded]_vars
    /\ WF_vars(RouterRun)
    /\ \A a \in AccountIds : WF_vars(WorkerStep(a))

\* ------------------------------------------- the session manager on its own
\* Every account may or may not configure a startCommand and a healthCommand,
\* and one health command may be one that never exits.  The dispatcher is idle.
InitSessions ==
    /\ InitWith(<<<<"a", "b">>, "round-robin">>, RunningCapacity, Fresh)
    /\ start_command \in SUBSET AccountIds
    /\ health_command \in SUBSET AccountIds
    /\ hanging \in health_command \cup {NoAccount}
    /\ SessionsNew

\* the supervision fiber, at whichever await it is suspended in
MonitorStep ==
    /\ \/ MonitorCycle
       \/ \E ok \in BOOLEAN : MonitorHealthReturn(ok)
       \/ \E killed \in BOOLEAN : MonitorStopDone(killed)
    /\ spawned' <= MaxSpawns

NextSessions ==
    \/ \E fail_at \in 1..(Len(order) + 1) : StartAll(fail_at)
    \/ StopAll
    \/ \E killed \in BOOLEAN : ManagerStopDone(killed)
    \/ MonitorStep
    \/ \E p \in live : ChildExits(p)

SessionSpec == InitSessions /\ [][NextSessions]_vars

\* the event loop runs the supervision fiber when it is ready, its sleep ends,
\* a child that was told to exit is gone after 5 s at most, and every health
\* command but the hanging one exits
FairSessionSpec == SessionSpec /\ WF_vars(MonitorStep)

\* -------------------------------------------------- sessions driven directly
NextSessionApi ==
    \/ \E a \in AccountIds : ApiStart(a) /\ spawned' <= MaxSpawns
    \/ \E a \in AccountIds : ApiStop(a)
    \/ \E killed \in BOOLEAN : ApiStopDone(killed)
    \/ \E p \in live : ChildExits(p)

SessionApiSpec == InitSessions /\ [][NextSessionApi]_vars

\* ================================================================ claims
\* number of run_task calls in progress on account a
RunTaskCalls(a) == IF worker[a].pc = "run_task" THEN 1 ELSE 0

\* the account on whose local queue task t was placed
PlacedOn(t) ==
    IF \E i \in 1..Len(placed) : placed[i].id = t
    THEN placed[CHOOSE i \in 1..Len(placed) : placed[i].id = t].acc
    ELSE NoAccount

\* the placements go a, b, a, b, ...: the i-th on the account of rank ((i-1) mod n)+1
Cyclic(seq) ==
    \A i \in 1..Len(seq) : IdRank(seq[i].acc) = ((i - 1) % Cardinality(Accounts)) + 1

\* C1: with the dispatcher left running and every run_task call ending, every
\* admitted task's result slot is fulfilled exactly once: never more than once,
\* and eventually once.
C1_FulfilledExactlyOnce ==
    /\ [](\A t \in Tasks : fulfilled[t] <= 1)
    /\ \A t \in Tasks : (future[t] = "pending") ~> (fulfilled[t] = 1)

\* C2: for every account, 0 <= inflight <= max_concurrency, and inflight equals
\* the number of run_task calls in progress on it.
C2_InflightBounded ==
    \A a \in Accounts :
        /\ 0 <= inflight[a]
        /\ inflight[a] <= max_concurrency[a]
        /\ inflight[a] = RunTaskCalls(a)

\* C2 witness: an account that had a task fail and was then cancelled by stop
\* while running another one at its concurrency limit is back at inflight 0.
C2_Witness ==
    \E a \in Accounts :
        /\ errors_total[a] = 1
        /\ stop_event
        /\ worker[a].item # NoTask
        /\ inflight[a] = 0
        /\ max_concurrency[a] = 1

\* C3: a submit made while the global queue holds global_queue_size items fails
\* with QueueFull, enqueues nothing and changes no queue and no AccountState.
C3_FullQueueRejects ==
    [][\A t \in Tasks :
          (future[t] = "none" /\ future'[t] # "none"
              /\ Len(global_queue) = global_queue_size)
          => (future'[t] = "queue_full" /\ UNCHANGED <<global_queue, accvars>>)]_vars

\* C4: the global queue never holds more than global_queue_size items and no
\* local queue more than per_account_queue_size, whatever the two sizes are.
C4_QueuesBounded ==
    /\ Len(global_queue) <= global_queue_size
    /\ \A a \in Accounts : Len(queue[a]) <= per_account_queue_size

\* C5: every account's health_score stays within [0, 100].
C5_HealthClamped ==
    \A a \in Accounts : 0 <= health_score[a] /\ health_score[a] <= HealthMax

\* C5 witness: in a worn fleet (scores at 0.5) one account was cut off at 0 by
\* a failure and another by a local-queue-full penalty.
C5_Witness ==
    /\ \E a \in Accounts : health_score[a] = 0 /\ errors_total[a] = Worn.errors + 1
    /\ \E a \in Accounts : health_score[a] = 0 /\ errors_total[a] = Worn.errors
    /\ Worn.health > 0

\* C6: until stop is called the router fiber and every worker fiber are running,
\* whatever requests were submitted and however their tasks ended.
C6_FibersSurvive ==
    ~stop_event =>
        /\ router.pc # "dead"
        /\ \A a \in Accounts : worker[a].pc # "dead"

\* C7: when stop runs, the result slot of every task still pending is fulfilled
\* with a shutdown error.
C7_StopFailsPending ==
    [][(~stop_event /\ stop_event')
          => \A t \in Tasks : future[t] = "pending" => future'[t] = "shutdown"]_vars

\* C8: a result delivered for a task that account A ran carries
\* metadata.account_id = A and every other key of the backend's metadata.
C8_AccountIdInjected ==
    \A t \in Tasks :
        future[t] = "result" =>
            /\ "account_id" \in DOMAIN result[t]
            /\ result[t]["account_id"] = PlacedOn(t)
            /\ \A k \in DOMAIN BackendMetadata(backend_out[t]) \ {"account_id"} :
                  k \in DOMAIN result[t] /\ result[t][k] = BackendMetadata(backend_out[t])[k]

\* C8 witness: a delivered result whose backend metadata had a key of its own
\* and a stale account_id.
C8_Witness ==
    \E t \in Tasks :
        /\ future[t] = "result"
        /\ backend_out[t] = "md_keys"
        /\ result[t]["trace"] = "x"

\* C9 as stated: while every pick was round-robin with all accounts usable and
\* the picked account not saturated, the placements go a, b, a, b, ...
C9_RoundRobinOrder == rr_log \in {"clean", "queue_full"} => Cyclic(placed)

\* C9 as amended: the same, while in addition no picked account's local queue
\* was full.
C9_RoundRobinOrderAmended == rr_log = "clean" => Cyclic(placed)

\* C9 witness: MaxSubmits tasks placed in a row by such picks, the cursor
\* having wrapped around.
C9_Witness ==
    /\ rr_log = "clean"
    /\ Len(placed) = MaxSubmits
    /\ Len(placed) > Cardinality(Accounts)

\* least element of a set of accounts by id
MinId(S) == CHOOSE a \in S : \A b \in S : IdRank(a) <= IdRank(b)

UsableSet == {a \in Accounts : health_score[a] > 0}

\* C10: lru returns the usable account with the smallest last_used_ts, health the
\* one with the largest health_score, ties going to the smallest account_id.
C10_TieBreakById ==
    UsableSet # {} =>
        /\ PickAccount("LRU", health_score, rr_cursor).acc =
              MinId({a \in UsableSet :
                        \A b \in UsableSet : last_used_ts[a] <= last_used_ts[b]})
        /\ PickAccount("health", health_score, rr_cursor).acc =
              MinId({a \in UsableSet :
                        \A b \in UsableSet : health_score[a] >= health_score[b]})

\* a task is waiting to be routed: held by the router or in the global queue
TaskWaiting == router.item # NoTask \/ global_queue # <<>>

AllZero == \A a \in Accounts : health_score[a] = 0

\* C11: an account whose score is 0 after PriorFailures + 1 task failures in a
\* row serves again and gets a score above 0, once no task fails on it any more
\* (its error count stays), while tasks are waiting to be routed and the router
\* is running.
C11_Rehabilitated ==
    \A a \in AccountIds :
        (health_score[a] = 0 /\ errors_total[a] = PriorFailures + 1)
            ~> \/ health_score[a] > 0
               \/ errors_total[a] > PriorFailures + 1
               \/ ~TaskWaiting
               \/ router.pc = "dead"

\* C12: while every account's score is 0 the router keeps the task it holds,
\* with its result slot pending, and is in a wait it re-evaluates after; and once
\* every score has been 0 with the router holding task t, whenever some score is
\* above 0 again, t is placed on a local queue (or every score is 0 again).
C12_WaitsAndResumes ==
    /\ [](\A t \in Tasks :
            (AllZero /\ router.item = t) =>
                (future[t] = "pending" /\ router.pc \in {"sleep", "capacity_wait"}))
    /\ \A t \in Tasks :
          []((AllZero /\ router.item = t) =>
                [](~AllZero => <>(PlacedOn(t) # NoAccount \/ AllZero)))

\* C13: POST /v1/messages answers a failed submit by error kind: QueueFull at
\* admission 429, a task timeout 504, any other backend error (task_command
\* exiting non-zero) 500.
C13_StatusByErrorKind ==
    \A t \in Tasks :
        /\ future[t] = "queue_full" => HttpStatus(future[t]) = 429
        /\ future[t] = "timeout" => HttpStatus(future[t]) = 504
        /\ future[t] = "backend_error" => HttpStatus(future[t]) = 500

\* C14: when stop_all has finished, having returned or raised, every session
\* has been stopped: no session holds a live child.
C14_StopAllStopsSessions ==
    manager.pc \in {"stopped", "stop_raised"} =>
        \A a \in AccountIds : ~ChildLive(proc[a], live)

\* C15: while supervision runs, a session whose child has exited gets a live
\* child again, also when the health command of another account never exits
\* (unless a restart of every session would take more than MaxSpawns children).
C15_ProbesIndependent ==
    \A b \in AccountIds :
        (manager.pc = "started" /\ hanging # b /\ ProbeFalse(SessState, b))
            ~> \/ ChildLive(proc[b], live)
               \/ manager.pc # "started"
               \/ spawned + Cardinality(AccountIds) > MaxSpawns

\* C16: a stop of a session without a live child signals no process and leaves
\* the handle empty; a start of a session whose child is live spawns nothing
\* and keeps the handle.
C16_StartStopIdempotent ==
    /\ (last_call.op = "stop" /\ ~last_call.was_live) =>
          (signals = last_call.signals /\ proc[last_call.acc] = NoProc)
    /\ (last_call.op = "start" /\ last_call.was_live) =>
          (spawned = last_call.spawned /\ proc[last_call.acc] = last_call.proc)

\* C16 witness: start was called on a session whose child is live, the second
\* child of the run, an earlier one having been stopped.
C16_Witness ==
    /\ last_call.op = "start"
    /\ last_call.was_live
    /\ ChildLive(proc[last_call.acc], live)
    /\ spawned >= 2
    /\ signals >= 1

\* C17: when the router's wait for capacity ends, by a signal or by the 1 s
\* timeout, it picks again for the task it holds: the task is placed, or the
\* router still holds it in a wait of the loop.  (Unless stop cancels the router.)
C17_CapacityWaitRepicks ==
    [][(router.pc = "capacity_wait" /\ router' # router /\ ~stop_event')
          => \/ PlacedOn(router.item)' # NoAccount
             \/ /\ router'.item = router.item
                /\ router'.pc \in {"capacity_wait", "sleep", "yield"}]_vars

\* what the inner `finally` leaves of inflight and the permits of account a in
\* a step in which its worker finished a task: one call less and one permit
\* more, unless the worker has already started its next task
Released(a) ==
    IF worker'[a].pc = "run_task"
    THEN inflight'[a] = inflight[a] /\ semaphore'[a] = semaphore[a]
    ELSE inflight'[a] = inflight[a] - 1 /\ semaphore'[a] = semaphore[a] + 1

\* C18: when run_task fails or times out for a task on account A, the worker
\* decrements A.inflight and releases the permit, sets A.health_score to
\* max(0, old - 5), adds exactly 1 to A.errors_total, fulfils the slot with that
\* error, once, and signals the capacity event.
C18_FailureEffects ==
    [][\A a \in Accounts :
          (/\ worker[a].pc = "run_task"
           /\ future[worker[a].item] = "pending"
           /\ future'[worker[a].item] \in Failures)
          => /\ Released(a)
             /\ health_score'[a] = Max2(0, health_score[a] - FailurePenalty)
             /\ errors_total'[a] = errors_total[a] + 1
             /\ tasks_total'[a] = tasks_total[a]
             /\ fulfilled'[worker[a].item] = fulfilled[worker[a].item] + 1
             /\ capacity_event']_vars

\* C18 witness: a task timed out on a fresh account: score 95, one error, no
\* call in progress, the capacity event set.
C18_Witness ==
    \E t \in Tasks :
        /\ future[t] = "timeout"
        /\ PlacedOn(t) # NoAccount
        /\ health_score[PlacedOn(t)] = HealthInit - FailurePenalty
        /\ errors_total[PlacedOn(t)] = 1
        /\ inflight[PlacedOn(t)] = 0
        /\ capacity_event

PlacedSeq(a) ==
    LET on == SelectSeq(placed, LAMBDA p : p.acc = a)
    IN  [i \in 1..Len(on) |-> on[i].id]

Admitted(t) == future[t] \notin {"none", "queue_full"}

\* C20: a task is placed only after every task admitted before it, and on each
\* account run_task starts in placement order: the local queue holds the last
\* tasks placed there, in order, and the task in run_task is the one before them.
C20_Fifo ==
    /\ \A i \in 1..Len(placed) : \A t \in Tasks :
          (t < placed[i].id /\ Admitted(t)) => \E j \in 1..(i - 1) : placed[j].id = t
    /\ \A a \in Accounts :
          LET on == PlacedSeq(a)
              waiting == Len(queue[a])
          IN  /\ waiting <= Len(on)
              /\ queue[a] = SubSeq(on, Len(on) - waiting + 1, Len(on))
              /\ worker[a].pc = "run_task" =>
                    (waiting < Len(on) /\ worker[a].item = on[Len(on) - waiting])

\* C20 witness: an account runs the second task placed on it, the first being
\* settled, while a third task placed there waits in its local queue.
C20_Witness ==
    \E a \in Accounts :
        /\ Len(PlacedSeq(a)) = 3
        /\ Len(queue[a]) = 1
        /\ worker[a].pc = "run_task"
        /\ worker[a].item = PlacedSeq(a)[2]
        /\ future[PlacedSeq(a)[1]] # "pending"

\* C21: each task a worker finishes is counted exactly once.  In the step in
\* which a worker's run_task call ends and the task's slot is fulfilled, either
\* tasks_total goes up by 1 (a result is delivered, the score gets the success
\* bonus) or errors_total goes up by 1 (an error is delivered, the score gets
\* the failure penalty), and the other counter does not move: whatever run_task
\* returned, a JSON value that is not an object included.
C21_CountedOnce ==
    [][\A a \in Accounts :
          (/\ worker[a].pc = "run_task"
           /\ future[worker[a].item] = "pending"
           /\ future'[worker[a].item] # "pending")
          => \/ /\ tasks_total'[a] = tasks_total[a] + 1
                /\ errors_total'[a] = errors_total[a]
                /\ future'[worker[a].item] = "result"
                /\ health_score'[a] = Min2(HealthMax, health_score[a] + SuccessBonus)
             \/ /\ errors_total'[a] = errors_total[a] + 1
                /\ tasks_total'[a] = tasks_total[a]
                /\ future'[worker[a].item] # "result"
                /\ health_score'[a] = Max2(0, health_score[a] - FailurePenalty)]_vars

\* C22: every account has at most one run_task call in progress, whatever its
\* max_concurrency: inflight is 0 or 1 and counts the calls of the account's one
\* worker.  So the router's test inflight >= max_concurrency is true only of an
\* account whose max_concurrency is 1.
C22_OneCallPerAccount ==
    \A a \in Accounts :
        /\ inflight[a] \in {0, 1}
        /\ RunTaskCalls(a) <= 1
        /\ inflight[a] = RunTaskCalls(a)
        /\ inflight[a] >= max_concurrency[a] => max_concurrency[a] = 1

\* C22 witness: an account with max_concurrency 2 runs one task while another
\* waits on its local queue and its second permit is free.
C22_Witness ==
    \E a \in Accounts :
        /\ max_concurrency[a] = 2
        /\ worker[a].pc = "run_task"
        /\ inflight[a] = 1
        /\ semaphore[a] = 1
        /\ queue[a] # <<>>

====
